---- MODULE Spec2Model ----
(***************************************************************************)
(* Model of read_scale.py: the Scale Session (main) and the Key Listener   *)
(* (keyboard_listener) threads, the shared action slot state["action"]     *)
(* guarded by action_lock, the stop_event flag, the SIGINT handler, the    *)
(* HID device handle and the terminal mode.                                *)
(*                                                                         *)
(* Time is counted in ticks of 100 ms.  Weights are fixed-point numbers in *)
(* units of 1/100000 oz.                                                   *)
(***************************************************************************)
EXTENDS Integers, Sequences, FiniteSets, TLC

\* ------------------------------------------------------------------ bounds
MaxTime == 4      \* the clock stops advancing at this tick
MaxKeys == 2      \* number of characters the listener reads from stdin
MaxFrameLen == 9  \* longest HID report handed to get_raw_weight
MaxRaw == 65535   \* largest raw reading handed to the status-line rendering
MaxSmall == 1100  \* largest |weight|, in 1/100000 oz, handed to
                  \* format_weight_display directly

\* --------------------------------------------------------------- constants
BUFFER_WEIGHT_INDEX_HIGH == 6
BUFFER_WEIGHT_INDEX_LOW == 7
MIN_FRAME_LEN == 8
WEIGHT_CALIBRATION_MULTIPLIER == 1286   \* 0.01286 oz, in 1/100000 oz
DEBOUNCE == 2                           \* 0.2 s, in ticks of 100 ms

VARIABLES
  spc,              \* position of main()
  kpc,              \* position of keyboard_listener()
  stream,           \* device handle: "none", "open", "closed"
  handler,          \* TRUE once signal.signal(SIGINT, signal_handler) ran
  should_exit,      \* flag set by signal_handler
  exc,              \* exception propagating out of main ("none" if none)
  absolute_zero, current_offset, current_raw, is_metric,
  action,           \* main's local: the token fetched from the slot
  display,          \* the status line last written to stdout
  slot,             \* state["action"]
  lock,             \* holder of action_lock: "none", "main", "kb"
  stop_event,
  term,             \* terminal mode: "cooked" or "raw"
  fd,               \* listener's local fd: FALSE models fd = None
  key,              \* listener's local: the character last read
  current_time,     \* listener's local
  last_action_time, \* listener's local
  now,              \* time.time()
  keysRead,         \* characters read so far
  published,        \* history: number of tokens published; a token's id
  appliedLog,       \* history: ids of the tokens applied by main
  superseded,       \* history: ids overwritten in the slot by a later publish
  acceptLog,        \* history: read times of the accepted T/R/M keys
  exitInLoop,       \* history: an exit token was published while main was
                    \* polling and no interrupt was pending
  sigAfterOpen,     \* history: SIGINT arrived while the device was open
  firstFrame,       \* history: frame returned by the startup read
  lastGoodFrame,    \* history: most recent frame that decoded
  lastPoll,         \* history: outcome of the device poll just made: "frame",
                    \* "nodata" (read error, empty read, short frame) or
                    \* "renderfail" (frame decoded, stdout write raised)
  kbEnd,            \* history: why the listener left its loop: "stop", "exit"
                    \* or "input" (end of input, or select failed)
  toggles,          \* history: number of toggle_units actions applied
  probe             \* a call of a Weight Decoder function and its result

vars == <<spc, kpc, stream, handler, should_exit, exc, absolute_zero,
          current_offset, current_raw, is_metric, action, display, slot,
          lock, stop_event, term, fd, key, current_time, last_action_time,
          now, keysRead, published, appliedLog, superseded, acceptLog,
          exitInLoop, sigAfterOpen, firstFrame, lastGoodFrame, lastPoll,
          kbEnd, toggles, probe>>

sessionVars == <<spc, stream, handler, should_exit, exc, absolute_zero,
                 current_offset, current_raw, is_metric, action, display>>
calibVars == <<absolute_zero, current_offset, current_raw, is_metric, display>>
listenerVars == <<kpc, term, fd, key, current_time, last_action_time, keysRead>>
histVars == <<published, appliedLog, superseded, acceptLog, exitInLoop, sigAfterOpen,
              firstFrame, lastGoodFrame>>

\* ------------------------------------------------------------ device frames
Frame(hi, lo) == <<3, 0, 0, 0, 0, 0, hi, lo>>
GoodFrames == {Frame(1, 44), Frame(0, 200)}
ShortFrame == <<3, 0, 0, 0, 0, 0, 1>>
EmptyRead == <<>>
ReadResults == GoodFrames \cup {ShortFrame, EmptyRead}
\* what the blocking startup read returns
StartupResults == {Frame(1, 44), ShortFrame, EmptyRead}

\* get_raw_weight raises ValueError unless this holds
FrameOk(buffer) == Len(buffer) >= MIN_FRAME_LEN

\* the two weight bytes read low byte first
GetRawWeightLittleEndian(buffer) ==
  (buffer[BUFFER_WEIGHT_INDEX_LOW + 1] * 256) + buffer[BUFFER_WEIGHT_INDEX_HIGH + 1]

GetRawWeight(buffer) ==
  (buffer[BUFFER_WEIGHT_INDEX_HIGH + 1] * 256) + buffer[BUFFER_WEIGHT_INDEX_LOW + 1]

GetCalibratedWeight(raw_value, tare_offset) ==
  LET delta == raw_value - tare_offset
  IN  delta * WEIGHT_CALIBRATION_MULTIPLIER

\* the status line "Weight: <display> (Raw: <delta>)"
NoDisplay == [shown |-> FALSE, weight |-> 0, metric |-> FALSE, delta |-> 0]
StatusLine(raw, offset, metric) ==
  [shown |-> TRUE, weight |-> GetCalibratedWeight(raw, offset),
   metric |-> metric, delta |-> raw - offset]

\* ------------------------------------------------------- get_raw_weight
\* a call of get_raw_weight: `raise ValueError` before any byte is read when
\* len(buffer) < 8, the big-endian value otherwise
GetRawWeightCall(buffer) ==
  IF ~FrameOk(buffer)
  THEN [exc |-> "ValueError"]
  ELSE [exc |-> "none", value |-> GetRawWeight(buffer)]

\* ------------------------------------------------ format_weight_display
\* A weight is a whole number of 1/100000 oz.
GRAMS_PER_OUNCE == 283495    \* 28.3495, in 1/10000 g per oz
OUNCES_PER_POUND == 16
GRAMS_PER_KILOGRAM == 1000

Abs(x) == IF x < 0 THEN -x ELSE x

\* f"{x:.Nf}" of x = q + r/unit, in steps of the last printed decimal: the
\* nearest step.  A decimal tie (2r = unit) is, as a binary float, a hair
\* above or below the tie, so either neighbour may be printed.
RoundFixed(q, r, unit, tieUp) ==
  IF 2 * r < unit THEN q
  ELSE IF 2 * r > unit THEN q + 1
  ELSE IF tieUp THEN q + 1 ELSE q

\* a sign for every negative weight
PrefixBelowZero(weight_oz) == weight_oz < 0

\* prefix = "-" if weight_oz < -0.01 else ""
Prefix(weight_oz) == weight_oz < -1000

\* grams = weight_oz * GRAMS_PER_OUNCE, a count of 10^-9 g held as its sign,
\* whole milligrams (mg) and the 10^-9 g below a milligram (frac); the
\* product is formed in base-1000 digits so that every intermediate value
\* fits in 32 bits
Grams(weight_oz) ==
  LET m  == Abs(weight_oz)
      a  == m \div 1000000
      b  == (m \div 1000) % 1000
      c  == m % 1000
      cK == c * GRAMS_PER_OUNCE
      s1 == (b * GRAMS_PER_OUNCE) + (cK \div 1000)
      s2 == (a * GRAMS_PER_OUNCE) + (s1 \div 1000)
  IN  [neg |-> weight_oz < 0, mg |-> s2, frac |-> ((s1 % 1000) * 1000) + (cK % 1000)]

\* the rendered text "<prefix><lbs> lb <mag> oz", "<prefix><mag> oz",
\* "<prefix><mag> g" or "<prefix><mag> kg"; mag counts steps of the last
\* printed decimal (1/100 oz, 1/10 g, 1/1000 kg), lbs is 0 outside the lb form
Text(prefix, unit, lbs, mag) ==
  [prefix |-> prefix, unit |-> unit, lbs |-> lbs, mag |-> mag]

FormatWeightDisplay(weight_oz, metric, tieUp) ==
  LET abs_weight == Abs(weight_oz)
      prefix == Prefix(weight_oz)
      grams == Grams(weight_oz)
      pound == OUNCES_PER_POUND * 100000
  IN  IF metric
      THEN IF grams.mg >= GRAMS_PER_KILOGRAM * 1000
           THEN Text(prefix, "kg", 0,
                     RoundFixed(grams.mg \div 1000,
                                ((grams.mg % 1000) * 1000000) + grams.frac,
                                1000000000, tieUp))
           ELSE Text(prefix, "g", 0,
                     RoundFixed(grams.mg \div 100,
                                ((grams.mg % 100) * 1000000) + grams.frac,
                                100000000, tieUp))
      ELSE IF abs_weight >= pound
           THEN LET lbs == abs_weight \div pound
                    rem_oz == abs_weight % pound
                IN  Text(prefix, "lb", lbs,
                         RoundFixed(rem_oz \div 1000, rem_oz % 1000, 1000, tieUp))
           ELSE Text(prefix, "oz", 0,
                     RoundFixed(abs_weight \div 1000, abs_weight % 1000, 1000, tieUp))

\* ------------------------------------------------------------ action tokens
NoAction == [kind |-> "None", id |-> 0]
NoProbe == [fn |-> "none"]
ExitKinds == {"exit_esc", "exit_ctrl_c"}
Keys == {"t", "R", "m", "ESC", "CTRL_C", "x"}
ExitKeys == {"ESC", "CTRL_C"}
NoKey == "none"

Upper(k) == CASE k = "t" -> "T" [] k = "r" -> "R" [] k = "m" -> "M" [] OTHER -> k

\* the token the key maps to under the lock, "None" when no branch matches
KeyToken(k) ==
  CASE Upper(k) = "T" -> "tare"
    [] Upper(k) = "R" -> "reset"
    [] Upper(k) = "M" -> "toggle_units"
    [] k = "ESC" -> "exit_esc"
    [] k = "CTRL_C" -> "exit_ctrl_c"
    [] OTHER -> "None"

\* a debounce window of 100 ms instead of 200 ms
DebouncedShort(ct, last) == ct - last < DEBOUNCE - 1

\* if current_time - last_action_time < 0.2: continue
Debounced(ct, last) == ct - last < DEBOUNCE

\* a lock that excludes nobody
LockAvailableAlways(holder) == TRUE

\* with action_lock: the lock can be taken only when nobody holds it
LockAvailable(holder) == holder = "none"

InLoop(pc) == pc \in {"while", "acquire", "fetch", "clear", "apply", "poll"}

SessionInit ==
  /\ spc = "connect" /\ kpc = "notstarted"
  /\ stream = "none" /\ handler = FALSE /\ should_exit = FALSE /\ exc = "none"
  /\ absolute_zero = 0 /\ current_offset = 0 /\ current_raw = 0
  /\ is_metric = FALSE /\ action = NoAction /\ display = NoDisplay
  /\ slot = NoAction /\ lock = "none" /\ stop_event = FALSE
  /\ term = "cooked" /\ fd = FALSE /\ key = NoKey
  /\ current_time = 0 /\ last_action_time = 0
  /\ now = DEBOUNCE /\ keysRead = 0
  /\ published = 0 /\ appliedLog = <<>> /\ superseded = {} /\ acceptLog = <<>>
  /\ exitInLoop = FALSE /\ sigAfterOpen = FALSE
  /\ firstFrame = <<>> /\ lastGoodFrame = <<>>
  /\ lastPoll = "none" /\ kbEnd = "none" /\ toggles = 0

Init == SessionInit /\ probe = NoProbe

\* ================================================================== main()
\* stream = connect_scale(); if stream is None: show_error_message(); return
Connect ==
  /\ spc = "connect"
  /\ UNCHANGED <<lastPoll, kbEnd, toggles, probe>>
  /\ \E found \in BOOLEAN :
       IF found THEN stream' = "open" /\ spc' = "install"
                ELSE stream' = "none" /\ spc' = "done"
  /\ UNCHANGED <<kpc, handler, should_exit, exc, calibVars, action, slot, lock,
                 stop_event, term, fd, key, current_time, last_action_time,
                 now, keysRead, histVars>>

\* should_exit = False; signal.signal(signal.SIGINT, signal_handler)
InstallHandler ==
  /\ spc = "install"
  /\ UNCHANGED <<lastPoll, kbEnd, toggles, probe>>
  /\ should_exit' = FALSE /\ handler' = TRUE /\ spc' = "startread"
  /\ UNCHANGED <<kpc, stream, exc, calibVars, action, slot, lock, stop_event,
                 term, fd, key, current_time, last_action_time, now, keysRead,
                 histVars>>

\* a startup read that returns nothing falls through to the listener start
StartupReadNextNoReturn(err, data) ==
  IF err \/ (data # EmptyRead /\ ~FrameOk(data)) THEN "close" ELSE "startkb"

\* where main continues after the startup read: "if not data: return" and an
\* exception both leave through the outer finally
StartupReadNext(err, data) ==
  IF err \/ data = EmptyRead \/ ~FrameOk(data) THEN "close" ELSE "startkb"

\* data = stream.read(64) ... is_metric = False; show_help_message()
StartupRead ==
  /\ spc = "startread"
  /\ UNCHANGED <<lastPoll, kbEnd, toggles, probe>>
  /\ \E err \in BOOLEAN, data \in StartupResults :
     /\ spc' = StartupReadNext(err, data)
     /\ IF err
         THEN /\ exc' = "OSError"
              /\ UNCHANGED <<calibVars, firstFrame, lastGoodFrame>>
         ELSE IF data = EmptyRead
         THEN /\ exc' = exc
              /\ UNCHANGED <<calibVars, firstFrame, lastGoodFrame>>
         ELSE IF ~FrameOk(data)
         THEN /\ exc' = "ValueError"
              /\ UNCHANGED <<calibVars, firstFrame, lastGoodFrame>>
         ELSE /\ absolute_zero' = GetRawWeight(data)
              /\ current_offset' = absolute_zero'
              /\ is_metric' = FALSE
              /\ firstFrame' = data /\ lastGoodFrame' = data
              /\ exc' = exc
              /\ UNCHANGED <<current_raw, display>>
  /\ UNCHANGED <<kpc, stream, handler, should_exit, action, slot, lock,
                 stop_event, term, fd, key, current_time, last_action_time,
                 now, keysRead, published, appliedLog, superseded, acceptLog,
                 exitInLoop, sigAfterOpen>>

\* state = {"action": None} ... kb_thread.start(); current_raw = absolute_zero
StartListener ==
  /\ spc = "startkb"
  /\ UNCHANGED <<lastPoll, kbEnd, toggles, probe>>
  /\ slot' = NoAction /\ lock' = "none" /\ stop_event' = FALSE
  /\ kpc' = "setup"
  /\ current_raw' = absolute_zero
  /\ spc' = "nonblock"
  /\ UNCHANGED <<stream, handler, should_exit, exc, absolute_zero,
                 current_offset, is_metric, action, display, term, fd, key,
                 current_time, last_action_time, now, keysRead, histVars>>

\* stream.set_nonblocking(1); an OSError leaves through both finally blocks
SetNonblocking ==
  /\ spc = "nonblock"
  /\ UNCHANGED <<lastPoll, kbEnd, toggles, probe>>
  /\ \E err \in BOOLEAN :
       IF err THEN exc' = "OSError" /\ spc' = "stop"
              ELSE exc' = exc /\ spc' = "while"
  /\ UNCHANGED <<kpc, stream, handler, should_exit, calibVars, action, slot,
                 lock, stop_event, term, fd, key, current_time,
                 last_action_time, now, keysRead, histVars>>

\* while not should_exit:
WhileCheck ==
  /\ spc = "while"
  /\ UNCHANGED <<kbEnd, toggles, probe>>
  /\ spc' = IF should_exit THEN "stop" ELSE "acquire"
  /\ lastPoll' = "none"
  /\ UNCHANGED <<kpc, stream, handler, should_exit, exc, calibVars, action,
                 slot, lock, stop_event, term, fd, key, current_time,
                 last_action_time, now, keysRead, histVars>>

\* with action_lock:
MainAcquire ==
  /\ spc = "acquire"
  /\ UNCHANGED <<lastPoll, kbEnd, toggles, probe>>
  /\ LockAvailable(lock)
  /\ lock' = "main" /\ spc' = "fetch"
  /\ UNCHANGED <<kpc, stream, handler, should_exit, exc, calibVars, action,
                 slot, stop_event, term, fd, key, current_time,
                 last_action_time, now, keysRead, histVars>>

\* action = state.get("action")
MainFetch ==
  /\ spc = "fetch"
  /\ UNCHANGED <<lastPoll, kbEnd, toggles, probe>>
  /\ action' = slot /\ spc' = "clear"
  /\ UNCHANGED <<kpc, stream, handler, should_exit, exc, calibVars, slot, lock,
                 stop_event, term, fd, key, current_time, last_action_time,
                 now, keysRead, histVars>>

\* if action: state["action"] = None; then the with block releases the lock
ClearSlot(fetched, s) == IF fetched # NoAction THEN NoAction ELSE s

MainClear ==
  /\ spc = "clear"
  /\ UNCHANGED <<lastPoll, kbEnd, toggles, probe>>
  /\ slot' = ClearSlot(action, slot)
  /\ lock' = "none" /\ spc' = "apply"
  /\ UNCHANGED <<kpc, stream, handler, should_exit, exc, calibVars, action,
                 stop_event, term, fd, key, current_time, last_action_time,
                 now, keysRead, histVars>>

\* tare and reset exchanged
TareOffsetZero(raw, zero) == zero
ResetOffsetRaw(raw, zero) == raw

\* the offset a tare / reset action installs
TareOffset(raw, zero) == raw
ResetOffset(raw, zero) == zero

\* a toggle_units branch that falls into the reset branch
AppliedOffsetToggleResets(kind, raw, zero, offset) ==
  CASE kind = "tare" -> raw
    [] kind \in {"reset", "toggle_units"} -> zero
    [] OTHER -> offset

\* current_offset after the if/elif chain of the action step
AppliedOffset(kind, raw, zero, offset) ==
  CASE kind = "tare" -> TareOffset(raw, zero)
    [] kind = "reset" -> ResetOffset(raw, zero)
    [] OTHER -> offset

\* every token ends the loop
BreaksLoopOnAnyToken(kind) == kind # "None"

\* the loop ignores the Ctrl-C token
BreaksLoopEscOnly(kind) == kind = "exit_esc"

\* elif action in ("exit_esc", "exit_ctrl_c"): break
BreaksLoop(kind) == kind \in ExitKinds

\* a toggle that always selects metric
ToggleUnitsSetMetric(metric) == TRUE

\* is_metric = not is_metric
ToggleUnits(metric) == ~metric

\* if action == "tare": ... elif action in ("exit_esc", "exit_ctrl_c"): break
MainApply ==
  /\ spc = "apply"
  /\ UNCHANGED <<lastPoll, kbEnd, probe>>
  /\ current_offset' = AppliedOffset(action.kind, current_raw, absolute_zero,
                                     current_offset)
  /\ is_metric' = IF action.kind = "toggle_units" THEN ToggleUnits(is_metric)
                                                  ELSE is_metric
  /\ toggles' = IF action.kind = "toggle_units" THEN toggles + 1 ELSE toggles
  /\ spc' = IF BreaksLoop(action.kind) THEN "stop" ELSE "poll"
  /\ appliedLog' = IF action # NoAction THEN Append(appliedLog, action.id)
                                        ELSE appliedLog
  /\ UNCHANGED <<kpc, stream, handler, should_exit, exc, absolute_zero,
                 current_raw, action, display, slot, lock, stop_event, term,
                 fd, key, current_time, last_action_time, now, keysRead,
                 published, superseded, acceptLog, exitInLoop, sigAfterOpen,
                 firstFrame, lastGoodFrame>>

\* the frame is decoded and rendered: the read succeeded, "if data:" passed
\* and get_raw_weight did not raise
PollDecodes(err, data) == ~err /\ data # EmptyRead /\ FrameOk(data)

\* a poll without a decodable frame zeroes the reading
RawAfterPollZeroes(err, data, raw) ==
  IF PollDecodes(err, data) THEN GetRawWeight(data) ELSE 0

\* current_raw after the poll: assigned only when get_raw_weight returned
RawAfterPoll(err, data, raw) ==
  IF PollDecodes(err, data) THEN GetRawWeight(data) ELSE raw

\* try: data = stream.read(64); if data: ... except Exception: logger.debug
\* (a failing write to stdout is caught too, after current_raw was assigned);
\* then time.sleep(0.01) and back to the loop test
MainPoll ==
  /\ spc = "poll"
  /\ UNCHANGED <<kbEnd, toggles, probe>>
  /\ \E err \in BOOLEAN, data \in ReadResults, writeFails \in BOOLEAN :
       /\ current_raw' = RawAfterPoll(err, data, current_raw)
       /\ IF PollDecodes(err, data)
          THEN /\ lastGoodFrame' = data
               /\ display' = IF writeFails THEN display
                             ELSE StatusLine(current_raw', current_offset, is_metric)
          ELSE UNCHANGED <<lastGoodFrame, display>>
       /\ lastPoll' = IF err \/ data = EmptyRead \/ Len(data) < MIN_FRAME_LEN
                      THEN "nodata"
                      ELSE IF writeFails THEN "renderfail" ELSE "frame"
  /\ spc' = "while"
  /\ UNCHANGED <<kpc, stream, handler, should_exit, exc, absolute_zero,
                 current_offset, is_metric, action, slot, lock, stop_event,
                 term, fd, key, current_time, last_action_time, now, keysRead,
                 published, appliedLog, superseded, acceptLog, exitInLoop,
                 sigAfterOpen, firstFrame>>

\* finally: stop_event.set()
StopListener ==
  /\ spc = "stop"
  /\ UNCHANGED <<lastPoll, kbEnd, toggles, probe>>
  /\ stop_event' = TRUE /\ spc' = "join"
  /\ UNCHANGED <<kpc, stream, handler, should_exit, exc, calibVars, action,
                 slot, lock, term, fd, key, current_time, last_action_time,
                 now, keysRead, histVars>>

\* a join without timeout
JoinReturnsNoTimeout(timedOut, ended) == ended

\* kb_thread.join(timeout=1.0): returns when the thread ended or on timeout
JoinReturns(timedOut, ended) == timedOut \/ ended

JoinListener ==
  /\ spc = "join"
  /\ UNCHANGED <<lastPoll, kbEnd, toggles, probe>>
  /\ \E timedOut \in BOOLEAN : JoinReturns(timedOut, kpc = "done")
  /\ spc' = "close"
  /\ UNCHANGED <<kpc, stream, handler, should_exit, exc, calibVars, action,
                 slot, lock, stop_event, term, fd, key, current_time,
                 last_action_time, now, keysRead, histVars>>

\* finally: stream.close(); main returns or the pending exception escapes
CloseStream ==
  /\ spc = "close"
  /\ UNCHANGED <<lastPoll, kbEnd, toggles, probe>>
  /\ stream' = "closed" /\ spc' = "done"
  /\ UNCHANGED <<kpc, handler, should_exit, exc, calibVars, action, slot, lock,
                 stop_event, term, fd, key, current_time, last_action_time,
                 now, keysRead, histVars>>

\* SIGINT: signal_handler sets the flag; before signal.signal() ran the
\* default handler raises KeyboardInterrupt in main, outside every try block
Signal ==
  /\ spc # "done"
  /\ UNCHANGED <<lastPoll, kbEnd, toggles, probe>>
  /\ IF handler
     THEN should_exit' = TRUE /\ UNCHANGED <<spc, exc>>
     ELSE spc' = "done" /\ exc' = "KeyboardInterrupt" /\ UNCHANGED should_exit
  /\ sigAfterOpen' = (sigAfterOpen \/ stream = "open")
  /\ UNCHANGED <<kpc, stream, handler, calibVars, action, slot, lock,
                 stop_event, term, fd, key, current_time, last_action_time,
                 now, keysRead, published, appliedLog, superseded, acceptLog,
                 exitInLoop, firstFrame, lastGoodFrame>>

SessionNext ==
  \/ Connect \/ InstallHandler \/ StartupRead \/ StartListener
  \/ SetNonblocking \/ WhileCheck \/ MainAcquire \/ MainFetch \/ MainClear
  \/ MainApply \/ MainPoll \/ StopListener \/ JoinListener
  \/ CloseStream

\* ===================================================== keyboard_listener()
\* the process ends when main returns: the daemon thread runs no further
Alive == spc # "done"

\* last_action_time = 0; try: fd, tcgetattr, tty.setraw  except: fd = None
KbSetup ==
  /\ kpc = "setup" /\ Alive
  /\ UNCHANGED <<lastPoll, kbEnd, toggles, probe>>
  /\ last_action_time' = 0
  /\ \E isTty \in BOOLEAN :
       IF isTty THEN fd' = TRUE /\ term' = "raw"
                ELSE fd' = FALSE /\ term' = term
  /\ kpc' = "check"
  /\ UNCHANGED <<sessionVars, slot, lock, stop_event, key, current_time, now,
                 keysRead, histVars>>

\* while not stop_event.is_set():
KbCheck ==
  /\ kpc = "check" /\ Alive
  /\ UNCHANGED <<lastPoll, toggles, probe>>
  /\ kpc' = IF stop_event THEN "restore" ELSE "select"
  /\ kbEnd' = IF stop_event THEN "stop" ELSE kbEnd
  /\ UNCHANGED <<sessionVars, slot, lock, stop_event, term, fd, key,
                 current_time, last_action_time, now, keysRead, histVars>>

\* select.select([sys.stdin], [], [], 0.1) returned no reader
KbSelectTimeout ==
  /\ kpc = "select" /\ Alive
  /\ UNCHANGED <<lastPoll, kbEnd, toggles, probe>>
  /\ kpc' = "check"
  /\ UNCHANGED <<sessionVars, slot, lock, stop_event, term, fd, key,
                 current_time, last_action_time, now, keysRead, histVars>>

\* select.select raised (outside the inner try): the exception leaves the
\* loop through the finally block and ends the thread
KbSelectError ==
  /\ kpc = "select" /\ Alive
  /\ UNCHANGED <<lastPoll, toggles, probe>>
  /\ kpc' = "restore"
  /\ kbEnd' = "input"
  /\ UNCHANGED <<sessionVars, slot, lock, stop_event, term, fd, key,
                 current_time, last_action_time, now, keysRead, histVars>>

\* key = sys.stdin.read(1) raised: except Exception: logger.debug
KbReadError ==
  /\ kpc = "select" /\ Alive
  /\ UNCHANGED <<lastPoll, kbEnd, toggles, probe>>
  /\ kpc' = "check"
  /\ UNCHANGED <<sessionVars, slot, lock, stop_event, term, fd, key,
                 current_time, last_action_time, now, keysRead, histVars>>

\* key = sys.stdin.read(1) returned "": break
KbReadEof ==
  /\ kpc = "select" /\ Alive
  /\ UNCHANGED <<lastPoll, toggles, probe>>
  /\ kpc' = "restore"
  /\ kbEnd' = "input"
  /\ UNCHANGED <<sessionVars, slot, lock, stop_event, term, fd, key,
                 current_time, last_action_time, now, keysRead, histVars>>

\* key = sys.stdin.read(1); current_time = time.time(); debounce test
KbReadKey ==
  /\ kpc = "select" /\ Alive
  /\ UNCHANGED <<lastPoll, kbEnd, toggles, probe>>
  /\ keysRead < MaxKeys
  /\ \E k \in Keys :
       /\ key' = k
       /\ current_time' = now
       /\ kpc' = IF Debounced(now, last_action_time) THEN "check" ELSE "lock"
  /\ keysRead' = keysRead + 1
  /\ UNCHANGED <<sessionVars, slot, lock, stop_event, term, fd,
                 last_action_time, now, histVars>>

\* with action_lock:
KbAcquire ==
  /\ kpc = "lock" /\ Alive
  /\ UNCHANGED <<lastPoll, kbEnd, toggles, probe>>
  /\ LockAvailable(lock)
  /\ lock' = "kb" /\ kpc' = "publish"
  /\ UNCHANGED <<sessionVars, slot, stop_event, term, fd, key, current_time,
                 last_action_time, now, keysRead, histVars>>

\* a slot that keeps a pending token instead of overwriting it
PublishSlotKeepFirst(old, token) == IF old # NoAction THEN old ELSE token

\* state["action"] = token: the value the slot holds after the write
PublishSlot(old, token) == token

\* the if/elif chain under the lock, then the lock is released
KbPublish ==
  /\ kpc = "publish" /\ Alive
  /\ UNCHANGED <<lastPoll, toggles, probe>>
  /\ LET kind == KeyToken(key)
         token == [kind |-> kind, id |-> published + 1]
     IN  /\ IF kind = "None"
            THEN UNCHANGED <<slot, published, superseded>>
            ELSE /\ slot' = PublishSlot(slot, token)
                 /\ published' = published + 1
                 /\ superseded' = IF slot # NoAction THEN superseded \cup {slot.id}
                                                     ELSE superseded
         /\ IF kind \in {"tare", "reset", "toggle_units"}
            THEN /\ last_action_time' = current_time
                 /\ acceptLog' = Append(acceptLog, current_time)
            ELSE UNCHANGED <<last_action_time, acceptLog>>
         /\ kpc' = IF kind \in ExitKinds THEN "restore" ELSE "check"
         /\ kbEnd' = IF kind \in ExitKinds THEN "exit" ELSE kbEnd
         /\ exitInLoop' = (exitInLoop \/ (kind \in ExitKinds /\ InLoop(spc) /\ ~should_exit))
  /\ lock' = "none"
  /\ UNCHANGED <<sessionVars, stop_event, term, fd, key, current_time, now,
                 keysRead, appliedLog, sigAfterOpen, firstFrame, lastGoodFrame>>

\* a listener that leaves the terminal as it is
RestoredTermKept(fdOk, mode) == mode

\* the terminal mode after the finally block (tcsetattr is taken to succeed)
RestoredTerm(fdOk, mode) == IF fdOk THEN "cooked" ELSE mode

\* finally: if fd is not None: termios.tcsetattr(fd, TCSADRAIN, old_settings)
KbRestore ==
  /\ kpc = "restore" /\ Alive
  /\ UNCHANGED <<lastPoll, kbEnd, toggles, probe>>
  /\ term' = RestoredTerm(fd, term)
  /\ kpc' = "done"
  /\ UNCHANGED <<sessionVars, slot, lock, stop_event, fd, key, current_time,
                 last_action_time, now, keysRead, histVars>>

ListenerNext ==
  \/ KbSetup \/ KbCheck \/ KbSelectTimeout \/ KbSelectError \/ KbReadError
  \/ KbReadEof
  \/ KbReadKey \/ KbAcquire \/ KbPublish \/ KbRestore

\* time.time() advances; the clock is read only by the statement that
\* follows sys.stdin.read(1), so time passing elsewhere is not observable,
\* and only the time elapsed since an earlier read matters to the listener
Tick ==
  /\ Alive /\ kpc = "select" /\ 0 < keysRead /\ keysRead < MaxKeys
  /\ now < MaxTime
  /\ UNCHANGED <<lastPoll, kbEnd, toggles, probe>>
  /\ now' = now + 1
  /\ UNCHANGED <<sessionVars, slot, lock, stop_event, listenerVars, histVars>>

Next == SessionNext \/ ListenerNext \/ Signal \/ Tick

Spec == Init /\ [][Next]_vars

\* both threads are scheduled; SIGINT and the clock are the environment's
FairSpec == Spec /\ WF_vars(SessionNext) /\ WF_vars(ListenerNext)

\* ================================================= the decoding functions
\* get_raw_weight and format_weight_display are pure: each is called once on
\* an argument drawn at the start, alone and as main() composes them for the
\* status line.
ByteSamples == {0, 1, 44, 255}
FillSamples == {0, 255}
MkFrame(len, fill, hi, lo) ==
  [i \in 1..len |-> IF i = BUFFER_WEIGHT_INDEX_HIGH + 1 THEN hi
                    ELSE IF i = BUFFER_WEIGHT_INDEX_LOW + 1 THEN lo
                    ELSE fill]

programVars == <<sessionVars, slot, lock, stop_event, listenerVars, now, histVars,
                 lastPoll, kbEnd, toggles>>

DecoderInit ==
  /\ SessionInit
  /\ \/ \E len \in 0..MaxFrameLen, fill \in FillSamples, hi, lo \in ByteSamples :
          probe = [fn |-> "get_raw_weight", done |-> FALSE,
                   buffer |-> MkFrame(len, fill, hi, lo)]
     \/ \E w \in -MaxSmall..MaxSmall, m \in BOOLEAN :
          probe = [fn |-> "format_weight_display", done |-> FALSE,
                   weight_oz |-> w, is_metric |-> m]
     \/ \E raw \in 0..MaxRaw, offset \in {0, MaxRaw}, m \in BOOLEAN :
          probe = [fn |-> "render", done |-> FALSE,
                   raw |-> raw, offset |-> offset, is_metric |-> m]

\* get_raw_weight(buffer)
CallGetRawWeight ==
  /\ probe.fn = "get_raw_weight" /\ ~probe.done
  /\ probe' = [fn |-> probe.fn, done |-> TRUE, buffer |-> probe.buffer,
               result |-> GetRawWeightCall(probe.buffer)]
  /\ UNCHANGED programVars

\* format_weight_display(weight_oz, is_metric)
CallFormatWeightDisplay ==
  /\ probe.fn = "format_weight_display" /\ ~probe.done
  /\ \E tieUp \in BOOLEAN :
       probe' = [fn |-> probe.fn, done |-> TRUE,
                 weight_oz |-> probe.weight_oz, is_metric |-> probe.is_metric,
                 result |-> FormatWeightDisplay(probe.weight_oz, probe.is_metric, tieUp)]
  /\ UNCHANGED programVars

\* weight = get_calibrated_weight(current_raw, current_offset)
\* display = format_weight_display(weight, is_metric)
\* delta = current_raw - current_offset
Render ==
  /\ probe.fn = "render" /\ ~probe.done
  /\ \E tieUp \in BOOLEAN :
       LET weight == GetCalibratedWeight(probe.raw, probe.offset)
       IN  probe' = [fn |-> probe.fn, done |-> TRUE,
                     raw |-> probe.raw, offset |-> probe.offset,
                     is_metric |-> probe.is_metric, weight_oz |-> weight,
                     delta |-> probe.raw - probe.offset,
                     result |-> FormatWeightDisplay(weight, probe.is_metric, tieUp)]
  /\ UNCHANGED programVars

DecoderNext == CallGetRawWeight \/ CallFormatWeightDisplay \/ Render

DecoderSpec == DecoderInit /\ [][DecoderNext]_vars

\* ================================================================ properties
Applied == {appliedLog[i] : i \in 1..Len(appliedLog)}
ExitConsumed == action.kind \in ExitKinds /\ spc \in {"stop", "join", "close", "done"}
Started == kpc # "notstarted"
RawValues == {GetRawWeight(f) : f \in GoodFrames}

\* C1: every published token is applied by the session at most once, and the
\* slot is emptied only of the token the session has just fetched (the
\* fetch-and-clear is atomic with respect to the listener's writes).
C1_AtMostOnce ==
  /\ [](\A i, j \in 1..Len(appliedLog) : i # j => appliedLog[i] # appliedLog[j])
  /\ [][(slot # NoAction /\ slot' = NoAction) => (spc = "clear" /\ action = slot)]_vars

C1_Witness ==
  /\ Len(appliedLog) = 2 /\ appliedLog[1] # appliedLog[2]
  /\ slot = NoAction /\ published = 2

\* C7: accepted T/R/M keys are at least 200 ms apart (so of two such keys read
\* less than 200 ms apart at most one is accepted), and last_action_time is the
\* read time of the last accepted action, 0 before the first.
C7_Debounce ==
  /\ \A i, j \in 1..Len(acceptLog) : i < j => acceptLog[j] - acceptLog[i] >= DEBOUNCE
  /\ last_action_time = IF acceptLog = <<>> THEN 0 ELSE acceptLog[Len(acceptLog)]
  /\ Len(acceptLog) <= published

\* an action key read 100 ms or less after an accepted one was dropped
C7_Witness ==
  /\ acceptLog # <<>> /\ keysRead = 2 /\ published = 1 /\ kpc = "check"
  /\ KeyToken(key) \in {"tare", "reset", "toggle_units"}
  /\ current_time - last_action_time < DEBOUNCE

\* C8: the slot holds only the token published last; a token overwritten before
\* the session fetched it is never applied; and the listener's publish waits
\* for the lock alone, which the session holds only while fetching.
C8_LastWriteWins ==
  /\ slot # NoAction => slot.id = published
  /\ Applied \cap superseded = {}
  /\ action.id \notin superseded
  /\ (kpc = "lock" /\ Alive /\ spc \notin {"fetch", "clear"}) => ENABLED KbAcquire
  /\ (kpc = "publish" /\ Alive) => ENABLED KbPublish

\* two tokens were published with no fetch in between; the later was applied
C8_Witness ==
  /\ superseded = {1} /\ appliedLog = <<2>> /\ slot = NoAction

\* C9: right after a tare is applied current_offset is current_raw, the raw
\* value of the most recent decoded frame, and the calibrated weight is 0;
\* the calibrated weight is (r - o) times the constant, 0 for r = o and
\* negative (not clamped) for r < o.
C9_Tare ==
  /\ (spc = "poll" /\ action.kind = "tare") =>
        /\ current_offset = current_raw
        /\ GetCalibratedWeight(current_raw, current_offset) = 0
  /\ InLoop(spc) => current_raw = GetRawWeight(lastGoodFrame)
  /\ \A r, o \in RawValues \cup {current_raw, current_offset} :
        /\ GetCalibratedWeight(r, o) = (r - o) * WEIGHT_CALIBRATION_MULTIPLIER
        /\ (r = o => GetCalibratedWeight(r, o) = 0)
        /\ (r < o => GetCalibratedWeight(r, o) < 0)
  /\ display.shown => (display.weight < 0 <=> display.delta < 0)

\* a tare applied on a reading that differs from the startup zero
C9_Witness ==
  /\ spc = "poll" /\ action.kind = "tare"
  /\ current_raw # absolute_zero /\ current_offset = current_raw

\* C10: right after a reset is applied current_offset is absolute_zero, and
\* absolute_zero stays the raw value of the frame read at startup.
C10_Reset ==
  /\ (spc = "poll" /\ action.kind = "reset") => current_offset = absolute_zero
  /\ firstFrame # <<>> => absolute_zero = GetRawWeight(firstFrame)
  /\ InLoop(spc) => firstFrame # <<>>

\* a reset applied after a tare had moved the offset away from absolute_zero
C10_Witness ==
  /\ spc = "poll" /\ action.kind = "reset" /\ appliedLog = <<1, 2>>
  /\ current_raw # absolute_zero /\ current_offset = absolute_zero
  /\ display.shown /\ display.delta = 0

\* C2: an exit key (ESC, Ctrl-C) read by the listener is never dropped by the
\* debounce test: after reading one the listener only takes the lock,
\* publishes the exit token and terminates.
C2_ExitBypassesDebounce ==
  key \in ExitKeys => kpc \in {"lock", "publish", "restore", "done"}

\* C3 (as stated): whenever the session has ended after an exit key was
\* accepted during polling, it has consumed the exit token.
C3_ExitAlwaysConsumed ==
  (exitInLoop /\ spc = "done") => ExitConsumed

\* C3 (amended): once an exit key was accepted during polling the session
\* eventually ends with the stop flag set, the device closed and no exception
\* escaping, having consumed the exit token or seen the interrupt flag; the
\* exit token stays in the slot until the session fetches it, and consuming it
\* breaks the loop with no device read and no render in that iteration.
C3_ExitShutsDown ==
  /\ exitInLoop ~> ( /\ spc = "done" /\ stream = "closed" /\ stop_event
                     /\ exc = "none" /\ (ExitConsumed \/ should_exit) )
  /\ [][slot.kind \in ExitKinds =>
          (slot' = slot \/ (spc = "clear" /\ action = slot))]_vars
  /\ [](slot.kind \in ExitKinds => kpc \in {"restore", "done"})
  /\ [][(spc = "apply" /\ action.kind \in ExitKinds) =>
          /\ spc' \in {"apply", "stop"}
          /\ UNCHANGED <<current_raw, display, lastGoodFrame>>]_vars
  /\ [](spc = "poll" => action.kind \notin ExitKinds)

\* the exit token was consumed and the session shut down with the listener ended
C3_Witness ==
  /\ exitInLoop /\ ExitConsumed /\ ~should_exit
  /\ spc = "done" /\ stream = "closed" /\ stop_event /\ kpc = "done"
  /\ exc = "none"

\* C4: when the process ends after a SIGINT that arrived while the device was
\* open, the device handle has been closed and the terminal is not left raw.
C4_InterruptIsGraceful ==
  (sigAfterOpen /\ spc = "done") => (stream = "closed" /\ term = "cooked")

\* C5: once the listener was started, the device is closed only after the stop
\* flag was set and the join returned; the session's shutdown steps never wait
\* for the listener (the join is bounded), and when the session has ended the
\* stop flag is set and the device is closed, whatever the listener did.
C5_OrderedShutdown ==
  /\ (Started /\ spc \in {"join", "close"}) => (stop_event /\ stream = "open")
  /\ (Started /\ stream = "closed") => (stop_event /\ spc = "done")
  /\ (Started /\ spc = "done") => (stop_event /\ stream = "closed")
  /\ (Started /\ ~stop_event) => (spc \in {"nonblock", "stop"} \/ InLoop(spc))
  /\ spc \in {"stop", "join", "close"} => ENABLED SessionNext

\* the device was closed although the listener had not finished, on the error path
C5_Witness ==
  /\ spc = "done" /\ stream = "closed" /\ stop_event
  /\ kpc \notin {"notstarted", "done"} /\ exc = "OSError"

\* C6: every loop iteration that does not exit ends with the status line
\* rendered from current_raw, current_offset and is_metric as they then stand.
C6_RenderEveryIteration ==
  [][(spc = "poll" /\ spc' = "while") =>
       display' = StatusLine(current_raw', current_offset', is_metric')]_vars

\* C11: a poll that returns no data, a frame shorter than 8 bytes or a read
\* error keeps current_raw and the calibration state as they were and takes
\* the session back to the loop test with no exception pending.
C11_FailedPollKeepsReading ==
  /\ [][(spc = "poll" /\ lastPoll' = "nodata") =>
          /\ current_raw' = current_raw
          /\ UNCHANGED <<absolute_zero, current_offset, is_metric, display>>
          /\ spc' = "while" /\ exc' = "none"]_vars
  /\ [](lastPoll = "nodata" => (spc = "while" /\ exc = "none"))
  /\ [][(spc = "poll" /\ spc' # spc) => lastPoll' # "none"]_vars

\* a failed poll kept a reading that differs from the startup zero
C11_Witness ==
  /\ lastPoll = "nodata" /\ spc = "while"
  /\ current_raw # absolute_zero /\ display.shown

\* C12: the session leaves the main loop only from the action step with an
\* exit token or from the loop test with the interrupt flag set, and no
\* exception is pending while it is in the loop.
C12_OnlyExitOrInterrupt ==
  /\ [][(InLoop(spc) /\ ~InLoop(spc')) =>
          /\ spc' = "stop"
          /\ \/ (spc = "apply" /\ action.kind \in ExitKinds)
             \/ (spc = "while" /\ should_exit)]_vars
  /\ [](InLoop(spc) => exc = "none")

\* the session is still polling after a token was applied, a render failed
\* and the listener ended on end of input
C12_Witness ==
  /\ spc = "while" /\ lastPoll = "renderfail" /\ ~should_exit
  /\ kpc = "done" /\ kbEnd = "input" /\ Len(appliedLog) = 1

\* C13: when no device was opened or the startup read gave no usable frame,
\* the listener is never started, the loop is never entered, no action is
\* applied, and the session ends with an opened device handle closed.
C13_StartupFailure ==
  /\ firstFrame = <<>> =>
        /\ kpc = "notstarted" /\ ~InLoop(spc) /\ appliedLog = <<>>
        /\ spc \in {"connect", "install", "startread", "close", "done"}
  /\ (spc = "done" /\ firstFrame = <<>> /\ exc # "KeyboardInterrupt") =>
        stream \in {"none", "closed"}
  /\ stream = "none" => spc \in {"connect", "done"}

\* the startup read returned nothing and the session ended with the device closed
C13_Witness ==
  /\ spc = "done" /\ firstFrame = <<>> /\ stream = "closed" /\ exc = "none"
  /\ kpc = "notstarted"

C15_ToggleFlips ==
  /\ is_metric = (toggles % 2 = 1)
  /\ toggles <= Len(appliedLog)

\* two toggles were applied and is_metric is back to imperial
C15_Witness ==
  /\ toggles = 2 /\ ~is_metric /\ display.shown /\ display.metric

\* C18: after startup absolute_zero never changes, and current_offset and
\* is_metric change only in the session's action step: tare and reset leave
\* is_metric alone, toggle_units leaves current_offset alone, any other token
\* or none leaves both alone.
C18_CalibrationFrame ==
  [][\/ spc = "startread"
     \/ UNCHANGED <<absolute_zero, current_offset, is_metric>>
     \/ /\ spc = "apply" /\ spc' # spc
        /\ absolute_zero' = absolute_zero
        /\ action.kind \in {"tare", "reset"} => is_metric' = is_metric
        /\ action.kind = "toggle_units" => current_offset' = current_offset
        /\ action.kind \notin {"tare", "reset", "toggle_units"} =>
              UNCHANGED <<current_offset, is_metric>>]_vars

\* a toggle was applied while the offset was a tared one
C18_Witness ==
  /\ toggles = 1 /\ is_metric /\ current_offset # absolute_zero
  /\ spc = "poll" /\ action.kind = "toggle_units"

\* C19 (as stated): if the listener has finished and the stop flag is not set,
\* an exit token is pending in the slot or was consumed by the session.
C19_ListenerEndsOnlyOnExit ==
  (kpc = "done" /\ ~stop_event) =>
     (slot.kind \in ExitKinds \/ action.kind \in ExitKinds)

\* C19 (amended): a listener that left its loop did so on the stop flag, on an
\* exit key whose token is pending or was consumed, or because stdin reached
\* end of input or select failed, in which case it published nothing for it.
C19_ListenerEndCauses ==
  /\ kpc \in {"restore", "done"} <=> kbEnd # "none"
  /\ kbEnd \in {"none", "stop", "exit", "input"}
  /\ kbEnd = "stop" => stop_event
  /\ kbEnd = "exit" => (slot.kind \in ExitKinds \/ action.kind \in ExitKinds)
  /\ (kbEnd = "input" /\ published = 0) => (slot = NoAction /\ action = NoAction)

\* the listener ended on end of input with no exit token; the session polls on
C19_Witness ==
  /\ kpc = "done" /\ kbEnd = "input" /\ ~stop_event /\ published = 0
  /\ spc = "poll" /\ display.shown

\* ------------------------------------------------- the decoding functions
Called(fn) == probe.fn = fn /\ probe.done

\* C16: get_raw_weight raises ValueError, and returns no value, for every
\* buffer shorter than 8 bytes; for every buffer of 8 or more bytes it returns
\* buffer[6]*256 + buffer[7] (0-based), a value in 0..65535, the same for
\* every length and every content of the other bytes.
C16_GetRawWeight ==
  Called("get_raw_weight") =>
    LET buffer == probe.buffer
        hi == buffer[BUFFER_WEIGHT_INDEX_HIGH + 1]
        lo == buffer[BUFFER_WEIGHT_INDEX_LOW + 1]
    IN  /\ Len(buffer) < 8 => probe.result = [exc |-> "ValueError"]
        /\ Len(buffer) >= 8 =>
             /\ probe.result = [exc |-> "none", value |-> (hi * 256) + lo]
             /\ probe.result.value \in 0..65535
             /\ \A len \in 8..MaxFrameLen, fill \in FillSamples :
                  GetRawWeightCall(MkFrame(len, fill, hi, lo)) = probe.result

\* a 9-byte report full of 0xFF around the weight bytes 0x01 0x2C decodes to 300
C16_Witness ==
  /\ Called("get_raw_weight")
  /\ probe.buffer = MkFrame(9, 255, 1, 44)
  /\ probe.result = [exc |-> "none", value |-> 300]

\* C17: in both unit modes the text carries a leading "-" only when the
\* unrounded weight is below -0.01 oz; the magnitude printed after it is the
\* one printed for the absolute value and no part of it is negative; the text
\* is never a minus sign followed by an all-zero magnitude; and in the
\* status line, where the weight is a whole raw delta times the calibration
\* multiplier, the sign is shown exactly when current_raw < current_offset.
C17_SignPrefix ==
  (Called("format_weight_display") \/ Called("render")) =>
    LET text == probe.result
    IN  /\ text.prefix => probe.weight_oz < -1000
        /\ text.lbs >= 0 /\ text.mag >= 0
        /\ \E tieUp \in BOOLEAN :
             [text EXCEPT !.prefix = FALSE]
               = FormatWeightDisplay(Abs(probe.weight_oz), probe.is_metric, tieUp)
        /\ ~(text.prefix /\ text.lbs = 0 /\ text.mag = 0)
        /\ Called("render") => (text.prefix <=> probe.raw < probe.offset)

\* the smallest negative delta, one raw unit under the offset, prints "-0.01 oz"
C17_Witness ==
  /\ Called("render")
  /\ probe.raw = probe.offset - 1 /\ ~probe.is_metric
  /\ probe.result = Text(TRUE, "oz", 0, 1)

\* C20: in the imperial status line, for every raw delta, the ounce figure
\* printed (rounded to 2 decimals) is below 16.00, in the ounces-only form and
\* as the remainder of the "<lbs> lb <oz> oz" form, and lbs is
\* floor(|weight_oz| / 16).
C20_OuncesBelowSixteen ==
  (Called("render") /\ ~probe.is_metric) =>
    /\ probe.result.mag < OUNCES_PER_POUND * 100
    /\ probe.result.lbs =
         (IF probe.result.unit = "lb"
          THEN Abs(probe.weight_oz) \div (OUNCES_PER_POUND * 100000) ELSE 0)
====
